---- MODULE Spec2Model ----
(***************************************************************************)
(* Model of app.py: a Streamlit expense tracker.  Credentials live in the  *)
(* sqlite table users(username PRIMARY KEY, password), each user's ledger  *)
(* in the file data/<username>_expenses.csv, and every browser session has *)
(* its own st.session_state.  One script run serves one widget event.      *)
(***************************************************************************)
EXTENDS Integers, Sequences, FiniteSets, TLC

\* ------------------------------------------------------------ bounds
\* Most expense submissions accepted per ledger file.
MaxRows == 2

\* ------------------------------------------------------------ inputs
\* Browser sessions connected to the one server process.
Sessions == {"s1", "s2"}

\* What a user can type into the Username / Password text inputs.
TypedUsernames == {"", " ", "bob"}
TypedPasswords == {"", "p", "q"}

\* Usernames whose ledger paths name one file.
SharedUsernames == {"bob", "./bob"}

\* Values bcrypt.gensalt() may return.
Salts == {"salt1", "salt2"}

\* What a user can put into the expense form before pressing Add.
TypedForms ==
    { [Date |-> "2024-01-05", Category |-> "Food",  Description |-> "tea", Amount |-> 10],
      [Date |-> "2024-02-01", Category |-> "Bills", Description |-> "",    Amount |-> 20],
      [Date |-> "2024-02-01", Category |-> "Other", Description |-> "fee", Amount |-> -1] }

\* ------------------------------------------------------------ strings
\* str.strip() on the typed usernames.
strip(x) == IF x = " " THEN "" ELSE x

\* f"data/{username}_expenses.csv" as the operating system resolves it: a
\* "./" path component names the same directory entry.
expense_file(name) ==
    CASE name = ""      -> "data/_expenses.csv"
      [] name = "bob"   -> "data/bob_expenses.csv"
      [] name = "./bob" -> "data/bob_expenses.csv"

Files == {"data/_expenses.csv", "data/bob_expenses.csv"}

\* ------------------------------------------------------------ bcrypt
\* bcrypt.hashpw(password, salt): the salt is kept in the hash, the digest
\* is a function of salt and password.
hashpw(password, salt) == [salt |-> salt, digest |-> <<salt, password>>]

\* bcrypt.checkpw(password, hashed): re-derive with the stored salt, compare.
checkpw(password, hashed) == hashpw(password, hashed.salt) = hashed

\* ------------------------------------------------------------ users table
\* INSERT INTO users: the PRIMARY KEY on username raises IntegrityError when
\* a row with that username exists; signup_user then returns False.
signup_user_replace(table, name, password, salt) ==
    [ok    |-> ~ \E r \in table : r.username = name,
     users |-> {r \in table : r.username # name}
                 \cup {[username |-> name, password |-> hashpw(password, salt)]}]

signup_user(table, name, password, salt) ==
    IF \E r \in table : r.username = name
       THEN [ok |-> FALSE, users |-> table]
       ELSE [ok |-> TRUE,
             users |-> table \cup {[username |-> name,
                                    password |-> hashpw(password, salt)]}]

\* SELECT password FROM users WHERE username=?; fetchone(); checkpw.
login_user_nocheck(table, name, password) ==
    \E r \in table : r.username = name

login_user(table, name, password) ==
    \E r \in table : r.username = name /\ checkpw(password, r.password)

\* ------------------------------------------------------------ data frames
Columns == <<"Date", "Category", "Description", "Amount">>

Categories == {"Food", "Transport", "Bills", "Shopping", "Other"}

\* pd.DataFrame(columns=[...]): no rows.
empty_df == [columns |-> Columns, rows |-> <<>>]

\* min_value of the Amount number input.
min_value == 0

\* st.number_input(min_value=0.0): the widget delivers no value below it.
number_input_nomin(v) == TRUE

number_input(v) == v >= min_value

\* pd.DataFrame([[date, category, description, amount]], columns=...): the
\* date is a datetime.date object, the description a str.
new_data(f) ==
    [columns |-> Columns,
     rows |-> << [Date        |-> [kind |-> "date", d |-> f.Date],
                  Category    |-> f.Category,
                  Description |-> [na |-> FALSE, s |-> f.Description],
                  Amount      |-> f.Amount] >>]

\* pd.concat([df, new_data], ignore_index=True)
concat(a, b) == [columns |-> a.columns, rows |-> a.rows \o b.rows]

\* str(Timestamp) of a midnight timestamp.
str_Timestamp(d) ==
    CASE d = "2024-01-05" -> "2024-01-05 00:00:00"
      [] d = "2024-02-01" -> "2024-02-01 00:00:00"

\* float repr, as to_csv writes it.
str_float(a) ==
    CASE a = -1 -> "-1.0"
      [] a = 0  -> "0.0"
      [] a = 10 -> "10.0"
      [] a = 20 -> "20.0"

\* .dt.to_period('M').astype(str)
to_period_M(d) ==
    CASE d = "2024-01-05" -> "2024-01"
      [] d = "2024-02-01" -> "2024-02"

\* A Date column read by read_csv(parse_dates) is datetime64; one holding a
\* datetime.date object is an object column.
is_datetime64(df) ==
    /\ df.rows # <<>>
    /\ \A i \in 1..Len(df.rows) : df.rows[i].Date.kind = "Timestamp"

\* The text to_csv writes for one cell.
csv_cell(df, row, col) ==
    CASE col = "Date" ->
           IF row.Date.kind = "Timestamp" /\ ~ is_datetime64(df)
              THEN str_Timestamp(row.Date.d)
              ELSE row.Date.d
      [] col = "Category" -> row.Category
      [] col = "Description" ->
           IF row.Description.na THEN "" ELSE row.Description.s
      [] col = "Amount" -> str_float(row.Amount)
      [] col = "Month" -> row.Month

\* df.to_csv(index=False): a header line, then one line per row.
to_csv(df) ==
    [header |-> df.columns,
     lines  |-> [i \in 1..Len(df.rows) |->
                   [j \in 1..Len(df.columns) |->
                      csv_cell(df, df.rows[i], df.columns[j])]]]

\* The strings read_csv takes for a missing value (keep_default_na).
na_values == {"", "NA", "N/A", "NaN", "nan", "null", "NULL", "None", "n/a", "#N/A"}

Dates == {"2024-01-05", "2024-02-01"}
Amounts == {-1, 0, 10, 20}

\* The value read_csv gives one cell.
read_cell(col, text) ==
    CASE col = "Date" ->
           [kind |-> "Timestamp",
            d |-> CHOOSE d \in Dates : text = d \/ text = str_Timestamp(d)]
      [] col = "Description" ->
           IF text \in na_values THEN [na |-> TRUE, s |-> ""]
                                 ELSE [na |-> FALSE, s |-> text]
      [] col = "Amount" -> CHOOSE a \in Amounts : str_float(a) = text
      [] OTHER -> text

ColumnSet(cols) == {cols[j] : j \in 1..Len(cols)}
ColumnIndex(cols, c) == CHOOSE j \in 1..Len(cols) : cols[j] = c

\* pd.read_csv(file, parse_dates=["Date"])
read_csv(csv) ==
    [columns |-> csv.header,
     rows |-> [i \in 1..Len(csv.lines) |->
                 [c \in ColumnSet(csv.header) |->
                    read_cell(c, csv.lines[i][ColumnIndex(csv.header, c)])]]]

\* No file at a path.
NoFile == [header |-> <<>>, lines |-> <<>>]

\* load_expense_data: the file when it exists, else the empty frame.
load_expense_data(fs, name) ==
    IF fs[expense_file(name)] # NoFile
       THEN read_csv(fs[expense_file(name)])
       ELSE empty_df

\* save_expense_data: overwrite the user's file with the whole frame.
save_expense_data_merge(fs, name, df) ==
    [fs EXCEPT ![expense_file(name)] =
        to_csv(concat(load_expense_data(fs, name),
                      [columns |-> df.columns, rows |-> <<df.rows[Len(df.rows)]>>]))]

save_expense_data(fs, name, df) ==
    [fs EXCEPT ![expense_file(name)] = to_csv(df)]

RECURSIVE groupby_sum(_, _)
\* df.groupby("Category")["Amount"].sum(): one key per category met.
groupby_sum(rows, acc) ==
    IF rows = <<>> THEN acc
    ELSE LET r == Head(rows)
             k == r.Category
         IN groupby_sum(Tail(rows),
               IF k \in DOMAIN acc
                  THEN [acc EXCEPT ![k] = @ + r.Amount]
                  ELSE [c \in DOMAIN acc \cup {k} |->
                          IF c = k THEN r.Amount ELSE acc[c]])

NoSums == [c \in {} |-> 0]

\* df['Month'] = pd.to_datetime(df['Date']).dt.to_period('M').astype(str)
with_month(df) ==
    [columns |-> Append(df.columns, "Month"),
     rows |-> [i \in 1..Len(df.rows) |->
                 [c \in ColumnSet(df.columns) \cup {"Month"} |->
                    IF c = "Month" THEN to_period_M(df.rows[i].Date.d)
                                   ELSE df.rows[i][c]]]]

\* ------------------------------------------------------------ state
VARIABLES
    users,       \* rows of the users table
    files,       \* content of each ledger file, NoFile when absent
    logged_in,   \* st.session_state.logged_in of each session
    username,    \* st.session_state.username of each session
    pc,          \* where each session's script run stands
    df,          \* the script's df variable of a run that stands at line 100
    form,        \* the expense form values of that run
    shown,       \* what the latest run of the main tracker put on its page
    credentials, \* history: <<username, password>> of each successful signup
    notice,      \* the st.success / st.error / st.warning of the latest run
    ledgerLog,   \* history: the form values saved to each file, in order
    lastSave     \* history: who overwrote each file last, from which snapshot

vars == <<users, files, logged_in, username, pc, df, form, shown,
          credentials, notice, ledgerLog, lastSave>>

NoForm == [Date |-> "", Category |-> "", Description |-> "", Amount |-> 0]

NoSave == [by |-> "none", loaded |-> empty_df, rec |-> NoForm]

\* df.groupby("Category")["Amount"].sum() of line 118.
category_sum_allkeys(frame) == groupby_sum(frame.rows, [c \in Categories |-> 0])

category_sum(frame) == groupby_sum(frame.rows, NoSums)

\* Line 132: df, which line 126 gave a Month column, is what the download
\* button serialises.
download_frame(frame) == with_month(frame)

\* Lines 107-137: the table, the charts and the download button of a
\* non-empty frame; the Month column is added to df before the download.
NoPage == [frame |-> empty_df, category_sum |-> NoSums, download |-> NoFile]

tracker(frame) ==
    IF frame.rows # <<>>
       THEN [frame        |-> frame,
             category_sum |-> category_sum(frame),
             download     |-> to_csv(download_frame(frame))]
       ELSE NoPage

\* Lines 86-137 of a run in which the form is not submitted.
main_tracker(li, name, fs, old) ==
    IF li THEN tracker(load_expense_data(fs, name)) ELSE old

Init ==
    /\ users = {}
    /\ files = [f \in Files |-> NoFile]
    /\ logged_in = [s \in Sessions |-> FALSE]
    /\ username = [s \in Sessions |-> ""]
    /\ pc = [s \in Sessions |-> "idle"]
    /\ df = [s \in Sessions |-> empty_df]
    /\ form = [s \in Sessions |-> NoForm]
    /\ shown = NoPage
    /\ credentials = {}
    /\ ledgerLog = [f \in Files |-> <<>>]
    /\ lastSave = [f \in Files |-> NoSave]
    /\ notice = ""

\* Lines 64-71: the Signup button's handler.
SignupHandler(s, new_user, new_password, salt) ==
    /\ pc[s] = "idle"
    /\ LET valid == new_user # "" /\ new_password # ""
           res   == signup_user(users, strip(new_user), new_password, salt)
       IN /\ users' = IF valid THEN res.users ELSE users
          /\ credentials' = IF valid /\ res.ok
                               THEN credentials \cup {<<strip(new_user), new_password>>}
                               ELSE credentials
          /\ notice' = IF ~ valid THEN "Please enter both username and password."
                       ELSE IF res.ok THEN "Account created. Please login."
                       ELSE "Username already exists."
    /\ UNCHANGED <<files, logged_in, username, pc, df, form, ledgerLog,
                   lastSave>>

\* The run the Signup button starts: its handler, then the main tracker.
SignupClick(s, new_user, new_password, salt) ==
    /\ SignupHandler(s, new_user, new_password, salt)
    /\ shown' = main_tracker(logged_in[s], username[s], files, shown)

\* The login handler's session update: set on success only.
login_session_always(ok, old, new) == new

login_session(ok, old, new) == IF ok THEN new ELSE old

\* Lines 77-83: the Login button's handler.
LoginHandler(s, typed_user, typed_password) ==
    /\ pc[s] = "idle"
    /\ LET ok == login_user(users, strip(typed_user), typed_password)
       IN /\ logged_in' = [logged_in EXCEPT ![s] = login_session(ok, logged_in[s], TRUE)]
          /\ username' = [username EXCEPT ![s] =
                             login_session(ok, username[s], strip(typed_user))]
          /\ notice' = IF ok THEN "Welcome" ELSE "Incorrect username or password."
    /\ UNCHANGED <<users, files, pc, df, form, credentials, ledgerLog, lastSave>>

\* The run the Login button starts: its handler, then the main tracker.
LoginClick(s, typed_user, typed_password) ==
    /\ LoginHandler(s, typed_user, typed_password)
    /\ shown' = main_tracker(logged_in'[s], username'[s], files, shown)

\* A run started by any other widget of a logged-in page (lines 86-137).
Rerun(s) ==
    /\ pc[s] = "idle"
    /\ logged_in[s]
    /\ notice' = ""
    /\ shown' = main_tracker(logged_in[s], username[s], files, shown)
    /\ UNCHANGED <<users, files, logged_in, username, pc, df, form, credentials,
                   ledgerLog, lastSave>>

\* Submissions on the way to file f: saved ones and loaded, unsaved ones.
Submissions(f) ==
    Len(ledgerLog[f])
      + Cardinality({t \in Sessions :
                       pc[t] = "submitted" /\ expense_file(username[t]) = f})

\* Lines 86-99 of the run the Add button starts: the frame is read.
AddLoad(s, f) ==
    /\ pc[s] = "idle"
    /\ logged_in[s]
    /\ number_input(f.Amount)
    /\ Submissions(expense_file(username[s])) < MaxRows
    /\ df' = [df EXCEPT ![s] = load_expense_data(files, username[s])]
    /\ form' = [form EXCEPT ![s] = f]
    /\ pc' = [pc EXCEPT ![s] = "submitted"]
    /\ UNCHANGED <<users, files, logged_in, username, shown, credentials,
                   notice, ledgerLog, lastSave>>

\* Lines 100-137 of that run: concat, overwrite the file, show the frame.
AddSave(s) ==
    /\ pc[s] = "submitted"
    /\ LET frame == concat(df[s], new_data(form[s]))
           f == expense_file(username[s])
       IN /\ files' = save_expense_data(files, username[s], frame)
          /\ shown' = tracker(frame)
          /\ ledgerLog' = [ledgerLog EXCEPT ![f] = Append(@, form[s])]
          /\ lastSave' = [lastSave EXCEPT ![f] =
                            [by |-> s, loaded |-> df[s], rec |-> form[s]]]
    /\ df' = [df EXCEPT ![s] = empty_df]
    /\ form' = [form EXCEPT ![s] = NoForm]
    /\ pc' = [pc EXCEPT ![s] = "idle"]
    /\ notice' = "Expense added successfully."
    /\ UNCHANGED <<users, logged_in, username, credentials>>

\* Lines 139-142 of a run of the logged-in page.
Logout(s) ==
    /\ pc[s] = "idle"
    /\ logged_in[s]
    /\ logged_in' = [logged_in EXCEPT ![s] = FALSE]
    /\ username' = [username EXCEPT ![s] = ""]
    /\ notice' = ""
    /\ shown' = main_tracker(logged_in[s], username[s], files, shown)
    /\ UNCHANGED <<users, files, pc, df, form, credentials, ledgerLog, lastSave>>

\* One script run of session s, or the second half of its Add run; U, P and
\* F are what its user may type, S the salts gensalt may draw.
Step(s, U, P, S, F) ==
    \/ \E u \in U, p \in P, salt \in S : SignupClick(s, u, p, salt)
    \/ \E u \in U, p \in P : LoginClick(s, u, p)
    \/ Rerun(s)
    \/ \E f \in F : AddLoad(s, f)
    \/ AddSave(s)
    \/ Logout(s)

\* One browser session.
Next == Step("s1", TypedUsernames, TypedPasswords, Salts, TypedForms)

Spec == Init /\ [][Next]_vars

\* Every browser session, each in its own script thread, typing accounts
\* that share a ledger file.
NextShared ==
    \E s \in Sessions : Step(s, SharedUsernames, {"p", "q"}, {"salt1"}, TypedForms)

SpecShared == Init /\ [][NextShared]_vars

\* ------------------------------------------------------------ claims
\* The usernames the handlers pass on, and those that have a row.
StoredNames == {strip(u) : u \in TypedUsernames}
Registered == {row.username : row \in users}

\* One record of a ledger as its text: calendar date, category, description,
\* amount.  FileRecords reads them off a file, FrameRecords off a frame,
\* FormRecord off the form values.
FileRecords(csv) ==
    [i \in 1..Len(csv.lines) |->
       << read_cell("Date", csv.lines[i][1]).d, csv.lines[i][2],
          csv.lines[i][3], csv.lines[i][4] >>]

FrameRecords(frame) ==
    [i \in 1..Len(frame.rows) |->
       << frame.rows[i].Date.d, frame.rows[i].Category,
          IF frame.rows[i].Description.na THEN "" ELSE frame.rows[i].Description.s,
          str_float(frame.rows[i].Amount) >>]

FormRecord(f) == << f.Date, f.Category, f.Description, str_float(f.Amount) >>

\* The values of one loaded row: calendar date, category, description (a
\* str or a missing value), amount.
RowValues(row) ==
    [Date |-> row.Date.d, Category |-> row.Category,
     Description |-> row.Description, Amount |-> row.Amount]

FormValues(f) ==
    [Date |-> f.Date, Category |-> f.Category,
     Description |-> [na |-> FALSE, s |-> f.Description], Amount |-> f.Amount]

\* C1: a signup the handler passes on succeeds iff the username has no row;
\* for a taken username the table is left as it was; a row once written is
\* never rewritten, no username has two rows, and each row verifies the
\* password of the one successful signup of its username.
C1_SignupFirstWins ==
    [][ /\ \A s \in Sessions, u \in TypedUsernames, p \in TypedPasswords, salt \in Salts :
             (u # "" /\ p # "" /\ SignupHandler(s, u, p, salt)) =>
                LET taken == strip(u) \in Registered
                    res == signup_user(users, strip(u), p, salt)
                IN /\ res.ok = ~ taken
                   /\ (notice' = "Account created. Please login.") = ~ taken
                   /\ (notice' = "Username already exists.") = taken
                   /\ taken => users' = users
                   /\ ~ taken => users' = users \cup
                                   {[username |-> strip(u), password |-> hashpw(p, salt)]}
        /\ \A row \in users : row \in users'
        /\ \A r1, r2 \in users' : r1.username = r2.username => r1 = r2
        /\ \A row \in users' :
             Cardinality({c \in credentials' :
                            c[1] = row.username /\ checkpw(c[2], row.password)}) = 1
        /\ \A c1, c2 \in credentials' : c1[1] = c2[1] => c1 = c2
      ]_vars

\* C1 witness: a second signup of a registered username has been refused.
C1_Witness ==
    /\ notice = "Username already exists."
    /\ \E row \in users : row.username = "bob"

\* C2: login_user(u, p) is true exactly for the pairs of a successful
\* signup; the login handler tells an unknown username and a wrong password
\* apart in nothing: same message, session state untouched.
C2_LoginIffSignedUp ==
    [][ /\ \A u \in StoredNames, p \in TypedPasswords :
             login_user(users', u, p) = (<<u, p>> \in credentials')
        /\ \A s \in Sessions, u \in TypedUsernames, p \in TypedPasswords :
             LoginHandler(s, u, p) =>
                IF <<strip(u), p>> \in credentials
                   THEN /\ notice' = "Welcome"
                        /\ logged_in'[s]
                        /\ username'[s] = strip(u)
                   ELSE /\ notice' = "Incorrect username or password."
                        /\ logged_in'[s] = logged_in[s]
                        /\ username'[s] = username[s]
      ]_vars

\* C2 witness: bob is registered, someone is logged in, and the latest login
\* attempt was refused.
C2_Witness ==
    /\ notice = "Incorrect username or password."
    /\ "bob" \in Registered
    /\ \E s \in Sessions : logged_in[s]

\* C3: within one session, for a user whose ledger file no other account
\* shares, load returns exactly the records submitted to the ledger, in the
\* order of submission.
C3_LoadReturnsSubmitted ==
    \A u \in Registered :
       (u # "" /\ \A v \in Registered \ {u} : expense_file(v) # expense_file(u)) =>
          LET rows == load_expense_data(files, u).rows
              log == ledgerLog[expense_file(u)]
          IN /\ Len(rows) = Len(log)
             /\ \A i \in 1..Len(rows) : RowValues(rows[i]) = FormValues(log[i])

C5_NoEmptyUsername == \A row \in users : row.username # ""

\* C6: the download has the four canonical columns and loads back to the
\* records of the frame it was made from.
C6_ExportRoundTrip ==
    shown.download # NoFile =>
       /\ shown.download.header = Columns
       /\ read_csv(shown.download).columns = Columns
       /\ FrameRecords(read_csv(shown.download)) = FrameRecords(shown.frame)

\* C7: a ledger file holds the snapshot its last writer had loaded plus that
\* writer's one record, whatever was saved between its load and its save.
C7_LastWriterWins ==
    \A f \in Files :
       lastSave[f].by # "none" =>
          /\ files[f] # NoFile
          /\ FileRecords(files[f])
               = FrameRecords(lastSave[f].loaded) \o <<FormRecord(lastSave[f].rec)>>

\* C7 witness: two sessions loaded the same ledger before either saved; both
\* have saved, and the file holds one record of the two.
C7_Witness ==
    \E f \in Files :
       /\ Len(ledgerLog[f]) = 2
       /\ Len(files[f].lines) = 1
       /\ \A s \in Sessions : pc[s] = "idle"

\* C8: an append under one username leaves the ledger of every other
\* registered username as it was.
C8_LedgersIsolated ==
    [][ \A s \in Sessions :
          AddSave(s) =>
             \A v \in Registered \ {username[s]} :
                load_expense_data(files', v) = load_expense_data(files, v)
      ]_vars

RECURSIVE SumOf(_, _)
\* The amounts of the rows of category c, added up.
SumOf(rows, c) ==
    IF rows = <<>> THEN 0
    ELSE (IF Head(rows).Category = c THEN Head(rows).Amount ELSE 0)
           + SumOf(Tail(rows), c)

\* C9: the category aggregate has a key exactly for the categories that
\* have a record, and maps it to the sum of that category's amounts.
C9_CategorySum ==
    shown.frame.rows # <<>> =>
       \A c \in Categories :
          /\ (c \in DOMAIN shown.category_sum)
               = (\E i \in 1..Len(shown.frame.rows) : shown.frame.rows[i].Category = c)
          /\ c \in DOMAIN shown.category_sum =>
               shown.category_sum[c] = SumOf(shown.frame.rows, c)

\* C9 witness: two Food records of 10 shown as Food: 20 and no other key.
C9_Witness ==
    /\ Len(shown.frame.rows) = 2
    /\ shown.category_sum = [c \in {"Food"} |-> 20]

\* C10 as stated: a session is logged in only if its latest login attempt
\* succeeded; with one session, its page then never shows the message of a
\* refused login.
C10_LastAttemptSucceeded ==
    logged_in["s1"] => notice # "Incorrect username or password."

\* C10 amended: a session is logged in only under a registered username and
\* becomes so, or changes its username, only by a login that succeeds; a
\* refused login leaves the session as it was; logout resets it; ledger
\* files are read for an append and written only by a logged-in session,
\* and only the file of its username.
C10_AuthGate ==
    [][ /\ \A s \in Sessions :
             /\ logged_in'[s] => username'[s] \in {row.username : row \in users'}
             /\ ~ logged_in'[s] => username'[s] = ""
             /\ pc'[s] = "submitted" => logged_in'[s]
             /\ (logged_in'[s] /\ (~ logged_in[s] \/ username'[s] # username[s])) =>
                   \E u \in TypedUsernames, p \in TypedPasswords :
                      /\ LoginHandler(s, u, p)
                      /\ login_user(users, strip(u), p)
                      /\ username'[s] = strip(u)
             /\ \A u \in TypedUsernames, p \in TypedPasswords :
                   (LoginHandler(s, u, p) /\ ~ login_user(users, strip(u), p)) =>
                      /\ logged_in'[s] = logged_in[s]
                      /\ username'[s] = username[s]
             /\ Logout(s) => ~ logged_in'[s] /\ username'[s] = ""
        /\ files' # files =>
             \E s \in Sessions :
                /\ AddSave(s)
                /\ logged_in[s]
                /\ \A f \in Files : f # expense_file(username[s]) => files'[f] = files[f]
        /\ shown' # shown => \E s \in Sessions : logged_in[s] \/ logged_in'[s]
      ]_vars

\* C10 witness: a logged-in session whose latest login attempt was refused.
C10_Witness ==
    /\ logged_in["s1"]
    /\ notice = "Incorrect username or password."

====
